---- MODULE Spec2Model ----
(***************************************************************************)
(* Model of the Shopify catalogue facade of src/main.py: the four public   *)
(* operations (products, detailed-products, products/{id},                 *)
(* product-by-url), the inventory merge and the URL resolver.              *)
(*                                                                         *)
(* Python values are encoded as follows.  None is the empty sequence and a *)
(* present value x is <<x>>.  A str is a sequence of one-character         *)
(* strings, so that re.search and str.isdigit are computed character by    *)
(* character.  One step of the model is the code that runs between two     *)
(* awaits of a coroutine: it consumes the response of the request the      *)
(* coroutine was suspended on and runs up to the next request (or to the   *)
(* return / raise).                                                        *)
(***************************************************************************)
EXTENDS Integers, Sequences, FiniteSets, TLC

VARIABLES
    config,              \* SHOPIFY_SHOP_URL, SHOPIFY_ACCESS_TOKEN (main.py:14-15)
    op,                  \* the function that was invoked
    pc,                  \* where its coroutine is suspended
    url,                 \* argument of product-by-url / extract_product_id_from_url
    handle,              \* argument of get_product_id_from_handle
    product_id,          \* argument of get_product_details
    requests,            \* upstream requests issued so far, in order
    next_url,            \* get_detailed_products: next_url
    all_products,        \* get_detailed_products: all_products
    products_data,       \* get_detailed_products: products_data
    links,               \* get_detailed_products: response.links of the last page
    product_data,        \* get_product_details: product_data
    inventory_json,      \* get_product_details: inventory_response.json()["inventory_levels"]
    inventory_ids,       \* the identifiers the last inventory-levels response had
    pages,               \* listing responses received so far, in order
    statuses,            \* status codes of the responses received so far, in order
    outcome,             \* what the invocation returned or raised
    suspended            \* the other invocations: the locals of each, saved at its await

vars == <<config, op, pc, url, handle, product_id, requests, next_url, all_products,
          products_data, links, product_data, inventory_json, inventory_ids, pages,
          statuses, outcome, suspended>>

-----------------------------------------------------------------------------
(* Bounds of the model *)

MaxPieces == 4       \* a URL is made of at most this many pieces
MaxPages == 2        \* listing requests of one pagination walk
MaxLevels == 2       \* entries of one inventory-levels response

-----------------------------------------------------------------------------
(* Python values *)

None == <<>>
Some(x) == <<x>>

RECURSIVE Concat(_)
Concat(ss) == IF ss = <<>> THEN <<>> ELSE Head(ss) \o Concat(Tail(ss))

SeqsUpTo(S, n) == UNION {[1..k -> S] : k \in 0..n}

Min(S) == CHOOSE x \in S : \A y \in S : x <= y

-----------------------------------------------------------------------------
(* Strings and the regular expressions of extract_product_id_from_url *)

Digits == {"0", "1", "2", "3", "4", "5", "6", "7", "8", "9"}

DigitValue(c) ==
    CASE c = "0" -> 0 [] c = "1" -> 1 [] c = "2" -> 2 [] c = "3" -> 3 [] c = "4" -> 4
      [] c = "5" -> 5 [] c = "6" -> 6 [] c = "7" -> 7 [] c = "8" -> 8 [] c = "9" -> 9

\* str.isdigit(): non-empty and every character a digit
isdigit(s) == s # <<>> /\ \A i \in 1..Len(s) : s[i] \in Digits

\* int(s) for a string of digits
RECURSIVE int(_)
int(s) == IF s = <<>> THEN 0
          ELSE 10 * int(SubSeq(s, 1, Len(s) - 1)) + DigitValue(s[Len(s)])

LitProducts == <<"/", "p", "r", "o", "d", "u", "c", "t", "s", "/">>
LitVariant == <<"v", "a", "r", "i", "a", "n", "t", "=">>
LitProduct == <<"p", "r", "o", "d", "u", "c", "t", "/">>

\* the literal lit occurs in s starting at position i
LitAt(s, i, lit) ==
    /\ i + Len(lit) - 1 <= Len(s)
    /\ \A k \in 1..Len(lit) : s[i + k - 1] = lit[k]

\* greedy [^/]+ from position i: the last position of the run, i - 1 if empty
RunNotSlash(s, i) ==
    IF \E j \in i..Len(s) : s[j] = "/"
    THEN Min({j \in i..Len(s) : s[j] = "/"}) - 1
    ELSE Len(s)

\* greedy \d+ from position i: the last position of the run, i - 1 if empty
RunDigits(s, i) ==
    IF \E j \in i..Len(s) : s[j] \notin Digits
    THEN Min({j \in i..Len(s) : s[j] \notin Digits}) - 1
    ELSE Len(s)

\* the patterns list without the variant query parameter
patterns_no_variant_mut == <<"products_token", "products_token_id", "product">>

\* the patterns list, in the order the loop tries them
patterns == <<"products_token", "products_token_id", "variant", "product">>

\* pattern p matches s at position i
MatchAt(p, s, i) ==
    CASE p = "products_token" ->
            /\ LitAt(s, i, LitProducts)
            /\ RunNotSlash(s, i + Len(LitProducts)) >= i + Len(LitProducts)
      [] p = "products_token_id" ->
            /\ LitAt(s, i, LitProducts)
            /\ LET e == RunNotSlash(s, i + Len(LitProducts))
               IN  /\ e >= i + Len(LitProducts)
                   /\ e + 2 <= Len(s)
                   /\ s[e + 1] = "/"
                   /\ s[e + 2] \in Digits
      [] p = "variant" ->
            /\ LitAt(s, i, LitVariant)
            /\ RunDigits(s, i + Len(LitVariant)) >= i + Len(LitVariant)
      [] p = "product" ->
            /\ LitAt(s, i, LitProduct)
            /\ RunDigits(s, i + Len(LitProduct)) >= i + Len(LitProduct)

\* match.group(1) of the match of p at position i
Group1(p, s, i) ==
    CASE p = "products_token" ->
            SubSeq(s, i + Len(LitProducts), RunNotSlash(s, i + Len(LitProducts)))
      [] p = "products_token_id" ->
            SubSeq(s, i + Len(LitProducts), RunNotSlash(s, i + Len(LitProducts)))
      [] p = "variant" ->
            SubSeq(s, i + Len(LitVariant), RunDigits(s, i + Len(LitVariant)))
      [] p = "product" ->
            SubSeq(s, i + Len(LitProduct), RunDigits(s, i + Len(LitProduct)))

\* re.search(p, s): None, or group(1) of the leftmost match
re_search(p, s) ==
    LET at == {i \in 1..Len(s) : MatchAt(p, s, i)}
    IN  IF at = {} THEN None ELSE Some(Group1(p, s, Min(at)))

\* what extract_product_id_from_url returns: None, an int, or the coroutine
\* object that calling the async get_product_id_from_handle creates
NoId == [tag |-> "none"]
IntId(n) == [tag |-> "int", val |-> n]
Coroutine(h) == [tag |-> "coroutine", handle |-> h]

extract_product_id_from_url(u) ==
    LET hit == {k \in 1..Len(patterns) : re_search(patterns[k], u) # None}
    IN  IF hit = {} THEN NoId
        ELSE LET g == re_search(patterns[Min(hit)], u)[1]
             IN  IF isdigit(g) THEN IntId(int(g)) ELSE Coroutine(g)

-----------------------------------------------------------------------------
(* Input URLs *)

Pieces == {LitProducts, <<"/">> \o LitProduct, <<"?">> \o LitVariant,
           <<"7">>, <<"a">>, <<"/">>}

Urls == {Concat(ps) : ps \in SeqsUpTo(Pieces, MaxPieces)}


\* URLs given to the public product-by-url operation
ExampleUrls == {LitProducts \o <<"7">>,
                LitProducts \o <<"a">>,
                LitProducts \o <<"a", "/", "7">>,
                LitProducts \o <<"7", "?">> \o LitVariant \o <<"7">>,
                <<"?">> \o LitVariant \o <<"7">>,
                <<"/">> \o LitProduct \o <<"7">>,
                <<"/", "a">>,
                LitProducts,
                <<"?">> \o LitVariant \o <<"a">>}

\* handles given to get_product_id_from_handle
Handles == {<<"a">>, <<"a", "a">>, <<"7", "a">>, <<"a", "?">> \o LitVariant \o <<"7">>}

-----------------------------------------------------------------------------
(* Configuration *)

\* what os.getenv can give: None, "" or a non-empty string
EnvValues == {None, Some(<<>>), Some(<<"s">>)}

\* Python truthiness of an Optional[str]
Truthy(v) == v # None /\ v[1] # <<>>

\* not (not SHOPIFY_SHOP_URL or not SHOPIFY_ACCESS_TOKEN)
Configured(c) == Truthy(c.SHOPIFY_SHOP_URL) /\ Truthy(c.SHOPIFY_ACCESS_TOKEN)

-----------------------------------------------------------------------------
(* Upstream data *)

ItemIds == {101, 102}

RawVariant(v, item) == [id |-> v, inventory_item_id |-> item]

\* product records the upstream can send; valid tells whether the record
\* passes the validation of the pydantic models (Product, ProductDetails)
RawProducts ==
    { [id |-> 7, variants |-> <<RawVariant(71, 101)>>, valid |-> TRUE],
      [id |-> 8, variants |-> <<RawVariant(81, 102), RawVariant(82, 101)>>, valid |-> TRUE],
      [id |-> 9, variants |-> <<RawVariant(91, 102)>>, valid |-> FALSE] }

\* the "available" of an inventory level: null or an integer
Avail == {None, Some(-1), Some(0), Some(2)}

Statuses == {200, 404, 429}

\* URLs of the listing endpoint: the base URL and the page cursors
BaseListing == "products.json"
Cursors == {"products.json?page_info=A", "products.json?page_info=B"}

\* identifiers given to products/{id}
RequestIds == {7, 77}

-----------------------------------------------------------------------------
(* Requests and outcomes *)

Request(kind, u, ids, text) == [kind |-> kind, url |-> u, ids |-> ids, text |-> text]

ListingRequest(u) == Request("listing", u, <<>>, <<>>)
InventoryRequest(ids) == Request("inventory", "inventory_levels.json", ids, <<>>)
HandleRequest(h) == Request("handle_lookup", "products.json?handle=", <<>>, h)

\* f"{SHOPIFY_SHOP_URL}/admin/api/2023-04/products/{product_id}.json": the
\* identifier is formatted into the URL whatever its type
ProductRequest(pid) ==
    IF pid.tag = "int" THEN Request("product", "products/{id}.json", <<pid.val>>, <<>>)
    ELSE Request("product", "products/{id}.json", <<>>, <<"<coroutine object>">>)

Pending == [kind |-> "pending", status |-> 0, detail |-> "", body |-> <<>>]
Return(body) == [kind |-> "return", status |-> 200, detail |-> "", body |-> body]
HTTPException(status, detail) ==
    [kind |-> "raise", status |-> status, detail |-> detail, body |-> <<>>]
\* an exception no handler catches: the framework answers 500
ValidationError == [kind |-> "raise", status |-> 500, detail |-> "ValidationError", body |-> <<>>]

NotConfigured == HTTPException(500, "Shopify credentials not configured")

-----------------------------------------------------------------------------
(* Inventory merge *)

\* d[k] = v of a dict
Put(d, k, v) == [x \in (DOMAIN d) \cup {k} |-> IF x = k THEN v ELSE d[x]]

EmptyDict == [x \in {} |-> None]

\* x or 0, for x None or an int
OrZero(x) == IF x = None \/ x = Some(0) THEN 0 ELSE x[1]

\* the loop of fetch_inventory_levels over the entries of the response
RECURSIVE inventory_levels_loop(_, _)
inventory_levels_loop(items, inventory_levels) ==
    IF items = <<>> THEN inventory_levels
    ELSE inventory_levels_loop(
            Tail(items),
            Put(inventory_levels, Head(items).inventory_item_id,
                [available |-> Head(items).available,
                 inventory_quantity |-> Head(items).available]))

\* the loop of fetch_inventory_levels keeping the first entry of an item
RECURSIVE inventory_levels_first_mut(_)
inventory_levels_first_mut(json) ==
    IF json = <<>> THEN EmptyDict
    ELSE LET item == json[Len(json)]
             before == inventory_levels_first_mut(SubSeq(json, 1, Len(json) - 1))
         IN  IF item.inventory_item_id \in DOMAIN before THEN before
             ELSE Put(before, item.inventory_item_id,
                      [available |-> item.available, inventory_quantity |-> item.available])

fetch_inventory_levels(json) == inventory_levels_loop(json, EmptyDict)

\* the dict comprehension of get_product_details
RECURSIVE details_levels_loop(_, _)
details_levels_loop(items, inventory_levels) ==
    IF items = <<>> THEN inventory_levels
    ELSE details_levels_loop(
            Tail(items),
            Put(inventory_levels, Head(items).inventory_item_id, Head(items).available))

details_inventory_levels(json) == details_levels_loop(json, EmptyDict)

\* detailed_variant with available computed as quantity >= 0
detailed_variant_available_mut(variant, inventory_levels) ==
    LET inventory_item_id == variant.inventory_item_id
        inventory_info ==
            IF inventory_item_id \in DOMAIN inventory_levels
            THEN inventory_levels[inventory_item_id]
            ELSE [available |-> Some(0), inventory_quantity |-> Some(0)]
        quantity == OrZero(inventory_info.inventory_quantity)
    IN  [id |-> variant.id, inventory_item_id |-> inventory_item_id,
         available |-> quantity >= 0, inventory_quantity |-> quantity]

\* a variant dict after the body of the inner loop of get_detailed_products
detailed_variant(variant, inventory_levels) ==
    LET inventory_item_id == variant.inventory_item_id
        inventory_info ==
            IF inventory_item_id \in DOMAIN inventory_levels
            THEN inventory_levels[inventory_item_id]
            ELSE [available |-> Some(0), inventory_quantity |-> Some(0)]
        quantity == OrZero(inventory_info.inventory_quantity)
    IN  [id |-> variant.id, inventory_item_id |-> inventory_item_id,
         available |-> quantity > 0, inventory_quantity |-> quantity]

\* details_variant with inventory_levels.get(inventory_item_id, 1)
details_variant_default_mut(variant, inventory_levels) ==
    LET inventory_item_id == variant.inventory_item_id
        inventory_level ==
            OrZero(IF inventory_item_id \in DOMAIN inventory_levels
                   THEN inventory_levels[inventory_item_id] ELSE Some(1))
    IN  [id |-> variant.id, inventory_item_id |-> inventory_item_id,
         available |-> inventory_level > 0, inventory_quantity |-> inventory_level]

\* a variant dict after the body of the loop of get_product_details
details_variant(variant, inventory_levels) ==
    LET inventory_item_id == variant.inventory_item_id
        inventory_level ==
            OrZero(IF inventory_item_id \in DOMAIN inventory_levels
                   THEN inventory_levels[inventory_item_id] ELSE None)
    IN  [id |-> variant.id, inventory_item_id |-> inventory_item_id,
         available |-> inventory_level > 0, inventory_quantity |-> inventory_level]

\* VariantDetails(**variant): the fields of the model, extra keys dropped
VariantDetails(variant) ==
    [id |-> variant.id, available |-> variant.available,
     inventory_quantity |-> variant.inventory_quantity]

\* ProductDetails(**product), for a product dict that validates
ProductDetails(product) ==
    [id |-> product.id,
     variants |-> [i \in DOMAIN product.variants |-> VariantDetails(product.variants[i])]]

\* Variant(**variant) and Product(**product) of the plain listing
Variant(variant) == [id |-> variant.id]

Product(product) ==
    [id |-> product.id,
     variants |-> [i \in DOMAIN product.variants |-> Variant(product.variants[i])]]

\* all_variant_ids collected from the first product of the page only
all_variant_ids_first_product_mut(products) ==
    IF products = <<>> THEN <<>>
    ELSE [j \in DOMAIN products[1].variants |-> products[1].variants[j].inventory_item_id]

\* all_variant_ids of get_detailed_products
all_variant_ids(products) ==
    Concat([i \in DOMAIN products |->
              [j \in DOMAIN products[i].variants |->
                  products[i].variants[j].inventory_item_id]])

\* inventory_item_ids of get_product_details
inventory_item_ids(product) ==
    [j \in DOMAIN product.variants |-> product.variants[j].inventory_item_id]

\* a product dict after the inner loop of get_detailed_products (lines 144-151)
detailed_product(product, inventory_levels) ==
    [product EXCEPT !.variants =
        [j \in DOMAIN product.variants |->
            detailed_variant(product.variants[j], inventory_levels)]]

\* product_data after the loop of get_product_details (lines 197-201)
details_product(product, inventory_levels) ==
    [product EXCEPT !.variants =
        [j \in DOMAIN product.variants |->
            details_variant(product.variants[j], inventory_levels)]]

\* next_link of a walk that stops after every page
next_link_stop_mut(response_links) == None

\* next_link that goes back to the base listing whenever there is a next page
next_link_refetch_mut(response_links) ==
    IF response_links = None THEN None ELSE Some(BaseListing)

\* response.links.get("next", {}).get("url"): the next-page link of the
\* response, None when it has none
next_link(response_links) == response_links

\* FirstInvalid of a validation that accepts every record
FirstInvalid_accepting_mut(products) == 0

\* index of the first product that fails validation, 0 if none does
FirstInvalid(products) ==
    IF \E i \in DOMAIN products : ~products[i].valid
    THEN Min({i \in DOMAIN products : ~products[i].valid})
    ELSE 0

-----------------------------------------------------------------------------
(* Initial states *)

NoArgs ==
    /\ pc = "start"
    /\ requests = <<>>
    /\ next_url = None
    /\ all_products = <<>>
    /\ products_data = <<>>
    /\ links = None
    /\ product_data = None
    /\ inventory_json = <<>>
    /\ inventory_ids = {}
    /\ pages = <<>>
    /\ statuses = <<>>
    /\ outcome = Pending

PublicOperations ==
    {"get_products", "get_detailed_products", "get_product_details", "get_product_by_url"}

Init ==
    /\ config \in [SHOPIFY_SHOP_URL : EnvValues, SHOPIFY_ACCESS_TOKEN : EnvValues]
    /\ op \in PublicOperations
    /\ url \in IF op = "get_product_by_url" THEN ExampleUrls ELSE {<<>>}
    /\ product_id \in IF op = "get_product_details"
                      THEN {IntId(n) : n \in RequestIds} ELSE {NoId}
    /\ handle = <<>>
    /\ NoArgs
    /\ suspended = <<>>

-----------------------------------------------------------------------------
(* The plain listing: get_products *)

Finish(o) == pc' = "done" /\ outcome' = o

Send(r) == requests' = Append(requests, r)

\* responses of the listing endpoint: a failure carries no records
\* a listing holds a product once: the sequences of distinct product records
Listings ==
    {records \in SeqsUpTo(RawProducts, Cardinality(RawProducts)) :
        \A i, j \in DOMAIN records : i # j => records[i] # records[j]}

ListingResponses ==
    [status : {200}, records : Listings, link : {None} \cup {Some(c) : c \in Cursors}]
    \cup [status : Statuses \ {200}, records : {<<>>}, link : {None}]

\* the product records of the pages received so far
Listed == UNION {{pages[i].records[j] : j \in DOMAIN pages[i].records} : i \in DOMAIN pages}

IdsOf(json) == {json[i].inventory_item_id : i \in DOMAIN json}

get_products ==
    /\ op = "get_products" /\ pc = "start"
    /\ IF ~Configured(config)
       THEN Finish(NotConfigured) /\ UNCHANGED requests
       ELSE Send(ListingRequest(BaseListing)) /\ pc' = "await_listing" /\ UNCHANGED outcome
    /\ UNCHANGED <<suspended, config, op, url, handle, product_id, next_url, all_products,
                   products_data, links, product_data, inventory_json, inventory_ids, pages>>
    /\ UNCHANGED statuses

get_products_response_from(Responses) ==
    /\ op = "get_products" /\ pc = "await_listing"
    /\ \E response \in Responses :
          /\ statuses' = Append(statuses, response.status)
          /\ pages' = Append(pages, [url |-> BaseListing] @@ response)
          /\ IF response.status # 200
             THEN Finish(HTTPException(response.status, "Failed to fetch products from Shopify"))
             ELSE IF FirstInvalid(response.records) # 0
             THEN Finish(ValidationError)
             ELSE Finish(Return([i \in DOMAIN response.records |-> Product(response.records[i])]))
          /\ UNCHANGED <<suspended, config, op, url, handle, product_id, requests, next_url, all_products,
                         products_data, links, product_data, inventory_json, inventory_ids>>

\* the plain listing following the next-link of a page, as the walk does
get_products_response_paging_mut ==
    /\ op = "get_products" /\ pc = "await_listing"
    /\ \E response \in ListingResponses :
          /\ statuses' = Append(statuses, response.status)
          /\ Len(pages) < MaxPages
          /\ pages' = Append(pages, [url |-> requests[Len(requests)].url] @@ response)
          /\ IF response.status # 200
             THEN /\ Finish(HTTPException(response.status,
                                          "Failed to fetch products from Shopify"))
                  /\ UNCHANGED <<requests, all_products>>
             ELSE IF FirstInvalid(response.records) # 0
             THEN Finish(ValidationError) /\ UNCHANGED <<requests, all_products>>
             ELSE LET accumulated ==
                         all_products \o [i \in DOMAIN response.records |->
                                            Product(response.records[i])]
                  IN  /\ all_products' = accumulated
                      /\ IF response.link = None
                         THEN Finish(Return(accumulated)) /\ UNCHANGED requests
                         ELSE /\ Send(ListingRequest(response.link[1]))
                              /\ UNCHANGED <<pc, outcome>>
          /\ UNCHANGED <<suspended, config, op, url, handle, product_id, next_url,
                         products_data, links, product_data, inventory_json, inventory_ids>>

get_products_response == get_products_response_from(ListingResponses)

-----------------------------------------------------------------------------
(* The pagination walk: get_detailed_products *)

get_detailed_products ==
    /\ op = "get_detailed_products" /\ pc = "start"
    /\ IF ~Configured(config)
       THEN Finish(NotConfigured) /\ UNCHANGED <<requests, next_url>>
       ELSE /\ next_url' = Some(BaseListing)
            /\ Send(ListingRequest(BaseListing))
            /\ pc' = "await_listing"
            /\ UNCHANGED outcome
    /\ UNCHANGED <<suspended, config, op, url, handle, product_id, all_products,
                   products_data, links, product_data, inventory_json, inventory_ids, pages>>
    /\ UNCHANGED statuses

\* the response to client.get(next_url) arrives: lines 129-140, up to the
\* request of fetch_inventory_levels
detailed_listing_response_from(Responses) ==
    /\ op = "get_detailed_products" /\ pc = "await_listing"
    /\ \E response \in Responses :
          /\ statuses' = Append(statuses, response.status)
          /\ Len(pages) < MaxPages
          /\ \A i \in DOMAIN response.records : response.records[i] \notin Listed
          /\ pages' = Append(pages, [url |-> next_url[1]] @@ response)
          /\ IF response.status # 200
             THEN /\ Finish(HTTPException(response.status, "Failed to fetch products from Shopify"))
                  /\ UNCHANGED <<requests, products_data, links>>
             ELSE /\ products_data' = response.records
                  /\ links' = response.link
                  /\ Send(InventoryRequest(all_variant_ids(response.records)))
                  /\ pc' = "await_inventory"
                  /\ UNCHANGED outcome
          /\ UNCHANGED <<suspended, config, op, url, handle, product_id, next_url, all_products,
                         product_data, inventory_json, inventory_ids>>

detailed_listing_response == detailed_listing_response_from(ListingResponses)

\* responses of the inventory-levels endpoint to a request for the identifiers
\* ids: levels of requested items only, and a failure carries no entries
InventoryLevelsResponses(ids) ==
    [status : {200},
     inventory_levels : SeqsUpTo([inventory_item_id : ids, available : Avail], MaxLevels)]
    \cup [status : Statuses \ {200}, inventory_levels : {<<>>}]

\* the identifiers of the inventory-levels request the invocation waits on
Requested ==
    IF requests = <<>> THEN {}
    ELSE {requests[Len(requests)].ids[i] : i \in DOMAIN requests[Len(requests)].ids}

\* the response to the request of fetch_inventory_levels arrives: lines
\* 99-109 and 142-154, then the loop test and the next client.get or the return
detailed_inventory_response_from(Responses) ==
    /\ op = "get_detailed_products" /\ pc = "await_inventory"
    /\ \E response \in Responses :
          /\ statuses' = Append(statuses, response.status)
          /\ inventory_ids' = IdsOf(response.inventory_levels)
          /\ IF response.status # 200
             THEN /\ Finish(HTTPException(response.status,
                                          "Failed to fetch inventory levels from Shopify"))
                  /\ UNCHANGED <<requests, next_url, all_products, products_data>>
             ELSE LET inventory_levels == fetch_inventory_levels(response.inventory_levels)
                      bad == FirstInvalid(products_data)
                      done == IF bad = 0 THEN Len(products_data) ELSE bad
                      appended == IF bad = 0 THEN Len(products_data) ELSE bad - 1
                      processed == [i \in 1..Len(products_data) |->
                                       IF i <= done
                                       THEN detailed_product(products_data[i], inventory_levels)
                                       ELSE products_data[i]]
                      accumulated == all_products \o
                                       [i \in 1..appended |-> ProductDetails(processed[i])]
                  IN  /\ products_data' = processed
                      /\ all_products' = accumulated
                      /\ IF bad # 0
                         THEN Finish(ValidationError) /\ UNCHANGED <<requests, next_url>>
                         ELSE /\ next_url' = next_link(links)
                              /\ IF next_url' = None
                                 THEN Finish(Return(accumulated)) /\ UNCHANGED requests
                                 ELSE /\ Send(ListingRequest(next_url'[1]))
                                      /\ pc' = "await_listing"
                                      /\ UNCHANGED outcome
          /\ UNCHANGED <<suspended, config, op, url, handle, product_id, links, product_data,
                         inventory_json, pages>>

detailed_inventory_response == detailed_inventory_response_from(InventoryLevelsResponses(Requested))

-----------------------------------------------------------------------------
(* One product: get_product_details, and get_product_by_url which calls it *)

\* get_product_details(pid) up to its first await: lines 161-173
details_begin(pid) ==
    /\ product_id' = pid
    /\ IF ~Configured(config)
       THEN Finish(NotConfigured) /\ UNCHANGED requests
       ELSE Send(ProductRequest(pid)) /\ pc' = "await_product" /\ UNCHANGED outcome

get_product_details ==
    /\ op = "get_product_details" /\ pc = "start"
    /\ details_begin(product_id)
    /\ UNCHANGED <<suspended, config, op, url, handle, next_url, all_products, products_data,
                   links, product_data, inventory_json, inventory_ids, pages>>
    /\ UNCHANGED statuses

\* get_product_by_url fetching the product without the credentials check
get_product_by_url_unchecked_mut ==
    /\ op = "get_product_by_url" /\ pc = "start"
    /\ LET pid == extract_product_id_from_url(url)
       IN  IF pid.tag = "none"
           THEN /\ Finish(HTTPException(400, "Unable to extract product ID from URL"))
                /\ UNCHANGED <<requests, product_id>>
           ELSE /\ product_id' = pid
                /\ Send(ProductRequest(pid)) /\ pc' = "await_product" /\ UNCHANGED outcome
    /\ UNCHANGED <<suspended, config, op, url, handle, next_url, all_products, products_data,
                   links, product_data, inventory_json, inventory_ids, pages>>
    /\ UNCHANGED statuses

\* get_product_by_url with the credentials check of the other operations
\* made before the URL is resolved
get_product_by_url_config_first_mut ==
    /\ op = "get_product_by_url" /\ pc = "start"
    /\ LET pid == extract_product_id_from_url(url)
       IN  IF ~Configured(config)
           THEN Finish(NotConfigured) /\ UNCHANGED <<requests, product_id>>
           ELSE IF pid.tag = "none"
           THEN /\ Finish(HTTPException(400, "Unable to extract product ID from URL"))
                /\ UNCHANGED <<requests, product_id>>
           ELSE details_begin(pid)
    /\ UNCHANGED <<suspended, config, op, url, handle, next_url, all_products, products_data,
                   links, product_data, inventory_json, inventory_ids, pages>>
    /\ UNCHANGED statuses

\* lines 247-251: the identifier is whatever extract_product_id_from_url
\* returned, and only None is rejected
get_product_by_url ==
    /\ op = "get_product_by_url" /\ pc = "start"
    /\ LET pid == extract_product_id_from_url(url)
       IN  IF pid.tag = "none"
           THEN /\ Finish(HTTPException(400, "Unable to extract product ID from URL"))
                /\ UNCHANGED <<requests, product_id>>
           ELSE details_begin(pid)
    /\ UNCHANGED <<suspended, config, op, url, handle, next_url, all_products, products_data,
                   links, product_data, inventory_json, inventory_ids, pages>>
    /\ UNCHANGED statuses

\* responses of the single-product endpoint: a failure carries no record
ProductResponses ==
    [status : {200}, product : {Some(r) : r \in RawProducts}]
    \cup [status : Statuses \ {200}, product : {None}]

\* the response to client.get(url) arrives: lines 175-187
details_product_response_from(Responses) ==
    /\ op \in {"get_product_details", "get_product_by_url"} /\ pc = "await_product"
    /\ \E response \in Responses :
          /\ statuses' = Append(statuses, response.status)
          /\ IF response.status # 200
             THEN /\ Finish(HTTPException(response.status,
                                          "Failed to fetch product details from Shopify"))
                  /\ UNCHANGED <<requests, product_data>>
             ELSE /\ product_data' = response.product
                  /\ Send(InventoryRequest(inventory_item_ids(response.product[1])))
                  /\ pc' = "await_inventory"
                  /\ UNCHANGED outcome
          /\ UNCHANGED <<suspended, config, op, url, handle, product_id, next_url, all_products,
                         products_data, links, inventory_json, inventory_ids, pages>>

details_product_response == details_product_response_from(ProductResponses)

\* the response to client.get(inventory_url) arrives: lines 189-203
details_inventory_response_from(Responses) ==
    /\ op \in {"get_product_details", "get_product_by_url"} /\ pc = "await_inventory"
    /\ \E response \in Responses :
          /\ statuses' = Append(statuses, response.status)
          /\ inventory_json' = response.inventory_levels
          /\ inventory_ids' = IdsOf(response.inventory_levels)
          /\ IF response.status # 200
             THEN /\ Finish(HTTPException(response.status,
                                          "Failed to fetch inventory levels from Shopify"))
                  /\ UNCHANGED product_data
             ELSE LET inventory_levels == details_inventory_levels(response.inventory_levels)
                      processed == details_product(product_data[1], inventory_levels)
                  IN  /\ product_data' = Some(processed)
                      /\ IF ~processed.valid
                         THEN Finish(ValidationError)
                         ELSE Finish(Return(<<ProductDetails(processed)>>))
          /\ UNCHANGED <<suspended, config, op, url, handle, product_id, requests, next_url, all_products,
                         products_data, links, pages>>

details_inventory_response == details_inventory_response_from(InventoryLevelsResponses(Requested))

-----------------------------------------------------------------------------
(* The public operations *)

Next ==
    \/ get_products
    \/ get_products_response
    \/ get_detailed_products
    \/ detailed_listing_response
    \/ detailed_inventory_response
    \/ get_product_details
    \/ get_product_by_url
    \/ details_product_response
    \/ details_inventory_response

Spec == Init /\ [][Next]_vars

-----------------------------------------------------------------------------
(* The pagination walk on its own, with an upstream that answers *)

InitWalk == Init /\ op = "get_detailed_products"

NextWalk ==
    \/ get_detailed_products
    \/ detailed_listing_response
    \/ detailed_inventory_response

\* the upstream answers every request (httpx gives a response or raises
\* within its timeout) and the event loop resumes the coroutine that awaits it
SpecWalk == InitWalk /\ [][NextWalk]_vars /\ WF_vars(NextWalk)

-----------------------------------------------------------------------------
(* The URL resolver on its own *)

InitResolve ==
    /\ config = [SHOPIFY_SHOP_URL |-> Some(<<"s">>), SHOPIFY_ACCESS_TOKEN |-> Some(<<"s">>)]
    /\ op = "extract_product_id_from_url"
    /\ url \in Urls
    /\ product_id = NoId
    /\ handle = <<>>
    /\ NoArgs
    /\ suspended = <<>>

resolve ==
    /\ op = "extract_product_id_from_url" /\ pc = "start"
    /\ product_id' = extract_product_id_from_url(url)
    /\ Finish(Return(<<>>))
    /\ UNCHANGED <<suspended, config, op, url, handle, requests, next_url, all_products,
                   products_data, links, product_data, inventory_json, inventory_ids, pages>>
    /\ UNCHANGED statuses

NextResolve == resolve

SpecResolve == InitResolve /\ [][NextResolve]_vars

-----------------------------------------------------------------------------
(* The handle lookup on its own: get_product_id_from_handle, awaited *)

InitHandle ==
    /\ config = [SHOPIFY_SHOP_URL |-> Some(<<"s">>), SHOPIFY_ACCESS_TOKEN |-> Some(<<"s">>)]
    /\ op = "get_product_id_from_handle"
    /\ url = <<>>
    /\ product_id = NoId
    /\ handle \in Handles
    /\ NoArgs
    /\ suspended = <<>>

get_product_id_from_handle ==
    /\ op = "get_product_id_from_handle" /\ pc = "start"
    /\ Send(HandleRequest(handle))
    /\ pc' = "await_handle"
    /\ UNCHANGED <<suspended, config, op, url, handle, product_id, next_url, all_products,
                   products_data, links, product_data, inventory_json, inventory_ids, pages, outcome>>
    /\ UNCHANGED statuses

\* lines 238-242: the identifier of the first product of a 200 response,
\* None in every other case
handle_response ==
    /\ op = "get_product_id_from_handle" /\ pc = "await_handle"
    /\ \E response \in ListingResponses :
          /\ statuses' = Append(statuses, response.status)
          /\ pages' = Append(pages, [url |-> "products.json?handle="] @@ response)
          /\ IF response.status = 200 /\ response.records # <<>>
             THEN product_id' = IntId(response.records[1].id)
             ELSE product_id' = NoId
          /\ Finish(Return(<<>>))
          /\ UNCHANGED <<suspended, config, op, url, handle, requests, next_url, all_products,
                         products_data, links, product_data, inventory_json, inventory_ids>>

NextHandle ==
    \/ get_product_id_from_handle
    \/ handle_response

SpecHandle == InitHandle /\ [][NextHandle]_vars

-----------------------------------------------------------------------------
(* The two inventory merges on their own, on the same response *)

InitMerge ==
    /\ config = [SHOPIFY_SHOP_URL |-> Some(<<"s">>), SHOPIFY_ACCESS_TOKEN |-> Some(<<"s">>)]
    /\ op = "inventory_merge"
    /\ url = <<>>
    /\ product_id = NoId
    /\ handle = <<>>
    /\ pc = "start"
    /\ requests = <<>>
    /\ next_url = None
    /\ all_products = <<>>
    /\ links = None
    /\ inventory_ids = {}
    /\ pages = <<>>
    /\ statuses = <<>>
    /\ outcome = Pending
    /\ suspended = <<>>
    /\ inventory_json \in SeqsUpTo([inventory_item_id : ItemIds, available : Avail], MaxLevels)
    /\ \E product \in RawProducts :
          products_data = <<product>> /\ product_data = Some(product)

\* lines 103-109 and 143-151 on products_data, lines 193-201 on product_data,
\* both with the entries of inventory_json
inventory_merge ==
    /\ op = "inventory_merge" /\ pc = "start"
    /\ products_data' =
          <<detailed_product(products_data[1], fetch_inventory_levels(inventory_json))>>
    /\ product_data' =
          Some(details_product(product_data[1], details_inventory_levels(inventory_json)))
    /\ inventory_ids' = IdsOf(inventory_json)
    /\ Finish(Return(<<>>))
    /\ UNCHANGED <<suspended, config, op, url, handle, product_id, requests, next_url,
                   all_products, links, inventory_json, pages, statuses>>

NextMerge == inventory_merge

SpecMerge == InitMerge /\ [][NextMerge]_vars

-----------------------------------------------------------------------------
(* Two invocations on one event loop *)

\* the locals of the running invocation
Frame ==
    [op |-> op, pc |-> pc, url |-> url, handle |-> handle, product_id |-> product_id,
     requests |-> requests, next_url |-> next_url, all_products |-> all_products,
     products_data |-> products_data, links |-> links, product_data |-> product_data,
     inventory_json |-> inventory_json, inventory_ids |-> inventory_ids,
     pages |-> pages, statuses |-> statuses, outcome |-> outcome]

\* the locals of an invocation that has not started
InitialFrame(o, u, pid) ==
    [op |-> o, pc |-> "start", url |-> u, handle |-> <<>>, product_id |-> pid,
     requests |-> <<>>, next_url |-> None, all_products |-> <<>>,
     products_data |-> <<>>, links |-> None, product_data |-> None,
     inventory_json |-> <<>>, inventory_ids |-> {},
     pages |-> <<>>, statuses |-> <<>>, outcome |-> Pending]

\* the invocations that run together: one of each public operation
ConcurrentInvocations ==
    {InitialFrame("get_products", <<>>, NoId),
     InitialFrame("get_detailed_products", <<>>, NoId),
     InitialFrame("get_product_details", <<>>, IntId(7)),
     InitialFrame("get_product_by_url", LitProducts \o <<"7">>, NoId)}

InitConcurrent ==
    /\ config = [SHOPIFY_SHOP_URL |-> Some(<<"s">>), SHOPIFY_ACCESS_TOKEN |-> Some(<<"s">>)]
    /\ \E f \in ConcurrentInvocations :
          /\ op = f.op /\ pc = f.pc /\ url = f.url /\ handle = f.handle
          /\ product_id = f.product_id /\ requests = f.requests
          /\ next_url = f.next_url /\ all_products = f.all_products
          /\ products_data = f.products_data /\ links = f.links
          /\ product_data = f.product_data /\ inventory_json = f.inventory_json
          /\ inventory_ids = f.inventory_ids /\ pages = f.pages
          /\ statuses = f.statuses /\ outcome = f.outcome
    /\ suspended \in {<<f>> : f \in ConcurrentInvocations}

\* switch with all_products a module-level list that the invocations share
switch_shared_accumulator_mut ==
    /\ suspended # <<>>
    /\ LET f == Head(suspended)
       IN  /\ op' = f.op /\ pc' = f.pc /\ url' = f.url /\ handle' = f.handle
           /\ product_id' = f.product_id /\ requests' = f.requests
           /\ next_url' = f.next_url /\ all_products' = all_products
           /\ products_data' = f.products_data /\ links' = f.links
           /\ product_data' = f.product_data /\ inventory_json' = f.inventory_json
           /\ inventory_ids' = f.inventory_ids /\ pages' = f.pages
           /\ statuses' = f.statuses /\ outcome' = f.outcome
    /\ suspended' = Append(Tail(suspended), Frame)
    /\ UNCHANGED config

\* the event loop leaves the running coroutine at its await (or before its
\* first step, or after its last) and resumes another one: every name the
\* handlers assign is a local of the coroutine and goes with it, the
\* module-level SHOPIFY_SHOP_URL and SHOPIFY_ACCESS_TOKEN stay
switch ==
    /\ suspended # <<>>
    /\ LET f == Head(suspended)
       IN  /\ op' = f.op /\ pc' = f.pc /\ url' = f.url /\ handle' = f.handle
           /\ product_id' = f.product_id /\ requests' = f.requests
           /\ next_url' = f.next_url /\ all_products' = f.all_products
           /\ products_data' = f.products_data /\ links' = f.links
           /\ product_data' = f.product_data /\ inventory_json' = f.inventory_json
           /\ inventory_ids' = f.inventory_ids /\ pages' = f.pages
           /\ statuses' = f.statuses /\ outcome' = f.outcome
    /\ suspended' = Append(Tail(suspended), Frame)
    /\ UNCHANGED config

\* the upstream of the concurrent runs: a catalogue of at most two pages of at
\* most one valid product each, inventory levels of at most one entry
ConcurrentListingResponses ==
    [status : {200},
     records : {<<>>} \cup {<<r>> : r \in {x \in RawProducts : x.valid}},
     link : IF pages = <<>> THEN {None} \cup {Some(c) : c \in Cursors} ELSE {None}]
    \cup [status : {404}, records : {<<>>}, link : {None}]

ConcurrentProductResponses ==
    [status : {200}, product : {Some(r) : r \in {x \in RawProducts : x.valid}}]
    \cup [status : {404}, product : {None}]

ConcurrentInventoryResponses(ids) ==
    [status : {200},
     inventory_levels : {<<>>} \cup {<<[inventory_item_id |-> i, available |-> Some(2)]>> : i \in ids}]
    \cup [status : {404}, inventory_levels : {<<>>}]

NextConcurrent ==
    \/ get_products
    \/ get_products_response_from(ConcurrentListingResponses)
    \/ get_detailed_products
    \/ detailed_listing_response_from(ConcurrentListingResponses)
    \/ detailed_inventory_response_from(ConcurrentInventoryResponses(Requested))
    \/ get_product_details
    \/ get_product_by_url
    \/ details_product_response_from(ConcurrentProductResponses)
    \/ details_inventory_response_from(ConcurrentInventoryResponses(Requested))
    \/ switch

SpecConcurrent == InitConcurrent /\ [][NextConcurrent]_vars

-----------------------------------------------------------------------------
(* Properties of the inventory merge *)

EnrichingOperations ==
    {"get_detailed_products", "get_product_details", "get_product_by_url"}

Returned == pc = "done" /\ outcome.kind = "return"

\* the variants of the enriched products the invocation returned
ReturnedVariants ==
    IF op \in EnrichingOperations /\ Returned
    THEN UNION {{outcome.body[i].variants[j] : j \in DOMAIN outcome.body[i].variants} :
                   i \in DOMAIN outcome.body}
    ELSE {}

\* the variants of the enriched products accumulated by a pagination walk
AccumulatedVariants ==
    UNION {{all_products[i].variants[j] : j \in DOMAIN all_products[i].variants} :
              i \in DOMAIN all_products}

\* C1: in every enriched product returned by detailed-products, products/{id}
\* or product-by-url (and in every product a walk has accumulated), each
\* variant has available = (inventory_quantity > 0)
C1_AvailableIffPositive ==
    \A v \in ReturnedVariants \cup AccumulatedVariants :
        v.available = (v.inventory_quantity > 0)

\* a walk returned variants in stock, out of stock and oversold
C1_Witness ==
    /\ op = "get_detailed_products" /\ Returned
    /\ \E v \in ReturnedVariants : v.available /\ v.inventory_quantity > 0
    /\ \E v \in ReturnedVariants : ~v.available /\ v.inventory_quantity = 0
    /\ \E v \in ReturnedVariants : ~v.available /\ v.inventory_quantity < 0

InventoryFailed ==
    /\ pc = "done" /\ outcome.kind = "raise"
    /\ outcome.detail = "Failed to fetch inventory levels from Shopify"

\* the last page of the walk has been merged with its inventory levels
PageMerged ==
    /\ op = "get_detailed_products"
    /\ pages # <<>> /\ pages[Len(pages)].status = 200
    /\ pc # "await_inventory" /\ ~InventoryFailed

\* the product of products/{id} or product-by-url has been merged
ProductMerged ==
    /\ op \in {"get_product_details", "get_product_by_url"}
    /\ pc = "done" /\ product_data # <<>> /\ ~InventoryFailed

\* the products of the last page that the loop of lines 143-152 went through
Processed ==
    IF FirstInvalid(products_data) = 0 THEN DOMAIN products_data
    ELSE 1..FirstInvalid(products_data)

Zeroed(v) == v.inventory_quantity = 0 /\ ~v.available

\* C7: a variant whose inventory-item identifier is absent from the
\* inventory-levels response of its batch gets inventory_quantity 0 and
\* available false, in detailed-products and in products/{id}, and the
\* operation fails only if a record does not validate
C7_AbsentIsZero ==
    /\ PageMerged =>
          /\ \A i \in Processed : \A j \in DOMAIN products_data[i].variants :
                products_data[i].variants[j].inventory_item_id \notin inventory_ids
                    => Zeroed(products_data[i].variants[j])
          /\ IF FirstInvalid(products_data) # 0
             THEN outcome = ValidationError
             ELSE /\ outcome.kind # "raise"
                  /\ Len(all_products) >= Len(products_data)
                  /\ \A i \in DOMAIN products_data :
                        all_products[Len(all_products) - Len(products_data) + i]
                            = ProductDetails(products_data[i])
    /\ ProductMerged =>
          /\ \A j \in DOMAIN product_data[1].variants :
                product_data[1].variants[j].inventory_item_id \notin inventory_ids
                    => Zeroed(product_data[1].variants[j])
          /\ IF product_data[1].valid
             THEN outcome = Return(<<ProductDetails(product_data[1])>>)
             ELSE outcome = ValidationError

\* a page was merged whose response had levels of one item and not of another
C7_Witness ==
    /\ PageMerged /\ Returned
    /\ inventory_ids # {}
    /\ \E i \in DOMAIN products_data : \E j \in DOMAIN products_data[i].variants :
          /\ products_data[i].variants[j].inventory_item_id \notin inventory_ids
          /\ \E v \in ReturnedVariants : v.id = products_data[i].variants[j].id /\ Zeroed(v)

\* C8 as claimed: every enriched variant returned has inventory_quantity >= 0
C8_QuantityNonNegative ==
    \A v \in ReturnedVariants : v.inventory_quantity >= 0


-----------------------------------------------------------------------------
(* Properties of the pagination walk *)

IsListing(r) == r.kind = "listing"
IsHandleLookup(r) == r.kind = "handle_lookup"
IsProductFetch(r) == r.kind = "product"

ListingRequests == SelectSeq(requests, IsListing)
HandleLookups == SelectSeq(requests, IsHandleLookup)
ProductFetches == SelectSeq(requests, IsProductFetch)

PageRecords == Concat([k \in DOMAIN pages |-> pages[k].records])

\* C2: during a walk the k-th listing request goes to the base listing for
\* k = 1 and to the next-link of page k - 1 otherwise, one request per page;
\* a walk that returns has made exactly as many listing requests as there are
\* pages, its last page has no next-link, and its result is the pages'
\* records in page order
C2_WalkInPageOrder ==
    op = "get_detailed_products" /\ pc # "start" /\ Configured(config) =>
        /\ Len(ListingRequests) = Len(pages) + (IF pc = "await_listing" THEN 1 ELSE 0)
        /\ ListingRequests[1].url = BaseListing
        /\ \A k \in 2..Len(ListingRequests) :
              /\ pages[k - 1].link # None
              /\ ListingRequests[k].url = pages[k - 1].link[1]
        /\ Returned =>
              /\ pages[Len(pages)].link = None
              /\ Len(outcome.body) = Len(PageRecords)
              /\ \A i \in DOMAIN PageRecords :
                    /\ outcome.body[i].id = PageRecords[i].id
                    /\ Len(outcome.body[i].variants) = Len(PageRecords[i].variants)
                    /\ \A j \in DOMAIN PageRecords[i].variants :
                          outcome.body[i].variants[j].id = PageRecords[i].variants[j].id

\* a walk over two pages, each with records, has returned
C2_Witness ==
    /\ op = "get_detailed_products" /\ Returned
    /\ Len(pages) = 2
    /\ pages[1].records # <<>> /\ pages[2].records # <<>>
    /\ Len(outcome.body) = Len(pages[1].records) + Len(pages[2].records)

-----------------------------------------------------------------------------
(* Properties of the URL resolver *)

Resolved == op \in {"get_product_by_url", "extract_product_id_from_url"} /\ pc # "start"

\* the first /products/<token> segment of u has a token that is not a number
HandleToken(u) ==
    /\ re_search("products_token", u) # None
    /\ ~isdigit(re_search("products_token", u)[1])

\* C3 as claimed: for a URL with a non-numeric /products/<token>,
\* product-by-url issues exactly one handle lookup, before any product fetch,
\* and fetches the product by an integer identifier
C3_OneHandleLookup ==
    Resolved /\ Configured(config) /\ HandleToken(url) =>
        /\ Len(HandleLookups) = 1
        /\ requests[1].kind = "handle_lookup"
        /\ \A i \in DOMAIN ProductFetches : ProductFetches[i].ids # <<>>

\* u has the form /products/<handle>/<numeric-id>
TrailingIdForm(u) == re_search("products_token_id", u) # None

\* the <numeric-id> of a URL of that form
TrailingId(u) ==
    LET i == Min({k \in 1..Len(u) : MatchAt("products_token_id", u, k)})
        e == RunNotSlash(u, i + Len(LitProducts))
    IN  int(SubSeq(u, e + 2, RunDigits(u, e + 2)))

\* one of the four rules yields a numeric identifier for u
NumericRule(u) ==
    \/ re_search("products_token", u) # None /\ ~HandleToken(u)
    \/ TrailingIdForm(u)
    \/ re_search("variant", u) # None
    \/ re_search("product", u) # None

\* C4 as claimed: a handle is looked up only when no rule yields a numeric
\* identifier, and /products/<handle>/<numeric-id> resolves to the numeric-id
C4_NumericBeforeHandle ==
    Resolved =>
        /\ product_id.tag = "coroutine" => ~NumericRule(url)
        /\ HandleToken(url) /\ TrailingIdForm(url) =>
              product_id = IntId(TrailingId(url)) /\ HandleLookups = <<>>

\* C5 as claimed: without the base URL or the credential no request is issued
\* and every public operation ends with the configuration error
C5_ConfigurationError ==
    ~Configured(config) =>
        /\ requests = <<>>
        /\ pc = "done" => outcome = NotConfigured

\* C6 as claimed: a 404 of the listing endpoint ends the invocation with an
\* error carrying status 404
C6_Listing404 ==
    pages # <<>> /\ pages[Len(pages)].status = 404 =>
        pc = "done" /\ outcome.kind = "raise" /\ outcome.status = 404

\* the positions of u where /products/ is followed by a path segment of digits
NumericSegments(u) ==
    {i \in 1..Len(u) :
        /\ LitAt(u, i, LitProducts)
        /\ LET e == RunDigits(u, i + Len(LitProducts))
           IN  /\ e >= i + Len(LitProducts)
               /\ e = Len(u) \/ u[e + 1] \in {"/", "?"}}

\* C9 as claimed: a URL whose first /products/ is followed by a segment of
\* digits resolves to that integer, with no handle lookup
C9_NumericSegment ==
    Resolved /\ NumericSegments(url) # {}
             /\ Min(NumericSegments(url)) = Min({i \in 1..Len(url) : LitAt(url, i, LitProducts)}) =>
        LET i == Min(NumericSegments(url))
        IN  /\ product_id = IntId(int(SubSeq(url, i + Len(LitProducts),
                                             RunDigits(url, i + Len(LitProducts)))))
            /\ HandleLookups = <<>>


-----------------------------------------------------------------------------
(* product-by-url against products/{id} *)

Max(S) == CHOOSE x \in S : \A y \in S : y <= x

\* the quantity products/{id} reports for an inventory item, from the entries
\* of the inventory-levels response
ReportedQuantity(item, json) ==
    LET at == {i \in DOMAIN json : json[i].inventory_item_id = item}
    IN  IF at = {} THEN 0 ELSE OrZero(json[Max(at)].available)

\* the product products/{id} returns for a product record and the entries of
\* the inventory-levels response
ReportedProduct(product, json) ==
    [id |-> product.id,
     variants |-> [j \in DOMAIN product.variants |->
        LET quantity == ReportedQuantity(product.variants[j].inventory_item_id, json)
        IN  [id |-> product.variants[j].id, available |-> quantity > 0,
             inventory_quantity |-> quantity]]]

\* what products/{n} does, as a function of the configuration and of the
\* upstream responses: the requests it has issued and how it has ended
BehavesAsDetails(n) ==
    IF ~Configured(config)
    THEN requests = <<>> /\ pc = "done" /\ outcome = NotConfigured
    ELSE /\ requests # <<>> /\ requests[1] = ProductRequest(IntId(n))
         /\ pc = "await_product" => Len(requests) = 1 /\ statuses = <<>>
         /\ pc = "await_inventory" =>
               /\ statuses = <<200>>
               /\ requests = <<ProductRequest(IntId(n)),
                               InventoryRequest(inventory_item_ids(product_data[1]))>>
         /\ pc = "done" =>
               IF statuses[1] # 200
               THEN /\ Len(requests) = 1 /\ Len(statuses) = 1
                    /\ outcome = HTTPException(statuses[1],
                                               "Failed to fetch product details from Shopify")
               ELSE /\ Len(statuses) = 2
                    /\ requests = <<ProductRequest(IntId(n)),
                                    InventoryRequest(inventory_item_ids(product_data[1]))>>
                    /\ outcome =
                         IF statuses[2] # 200
                         THEN HTTPException(statuses[2],
                                            "Failed to fetch inventory levels from Shopify")
                         ELSE IF ~product_data[1].valid THEN ValidationError
                         ELSE Return(<<ReportedProduct(product_data[1], inventory_json)>>)

\* C10: for a URL that resolves to the integer n, product-by-url issues the
\* requests and ends with the result or failure that products/{n} does for
\* the same configuration and the same upstream responses
C10_ByUrlAsDetails ==
    /\ op = "get_product_details" /\ pc # "start" => BehavesAsDetails(product_id.val)
    /\ op = "get_product_by_url" /\ pc # "start"
          /\ extract_product_id_from_url(url).tag = "int" =>
              BehavesAsDetails(extract_product_id_from_url(url).val)

\* product-by-url returned the enriched product for a URL that resolves to 7
C10_Witness ==
    /\ op = "get_product_by_url" /\ Returned
    /\ extract_product_id_from_url(url) = IntId(7)
    /\ requests[1] = ProductRequest(IntId(7))
    /\ \E v \in ReturnedVariants : v.available

-----------------------------------------------------------------------------
(* Failures of product-by-url and of the upstream *)

\* none of the four rules applies to u: no /products/<token>, no
\* /products/<token>/<digits>, no variant=<digits>, no product/<digits>
NoRuleMatches(u) ==
    /\ re_search("products_token", u) = None
    /\ re_search("products_token_id", u) = None
    /\ re_search("variant", u) = None
    /\ re_search("product", u) = None

\* C11: when no resolution rule matches the URL, product-by-url ends with a
\* failure whose status is 400 (a 4xx, never a 5xx) and has issued no upstream
\* request, whatever the configuration
C11_NoRuleIs400 ==
    op = "get_product_by_url" /\ pc # "start" /\ NoRuleMatches(url) =>
        /\ pc = "done" /\ outcome.kind = "raise"
        /\ outcome.status = 400
        /\ requests = <<>>

\* product-by-url was given /products/ with nothing after it, without
\* credentials, and ended with the 400
C11_Witness ==
    /\ op = "get_product_by_url" /\ pc = "done"
    /\ url = LitProducts /\ NoRuleMatches(url)
    /\ ~Configured(config)
    /\ outcome = HTTPException(400, "Unable to extract product ID from URL")

\* C12 as claimed: the first response with a status other than 200 is the
\* last thing the invocation receives: no request follows the one it answers,
\* and the invocation ends with a failure carrying that status
C12_NoSwallowNoRetry ==
    \A i \in DOMAIN statuses :
        statuses[i] # 200 =>
            /\ i = Len(statuses)
            /\ Len(requests) = i
            /\ pc = "done" /\ outcome.kind = "raise" /\ outcome.status = statuses[i]

-----------------------------------------------------------------------------
(* Validation and batching in the pagination walk *)

HasInvalid(records) == \E i \in DOMAIN records : ~records[i].valid

\* the pages received so far that hold a record failing validation
InvalidPages == {k \in DOMAIN pages : HasInvalid(pages[k].records)}

\* C13: once detailed-products has received a page with a record that fails
\* validation, it never returns a product list: it is waiting for that page's
\* inventory levels or has ended with a failure, and it has requested no page
\* after that one
C13_InvalidRecordFailsWalk ==
    op = "get_detailed_products" /\ InvalidPages # {} =>
        /\ outcome.kind # "return"
        /\ pc \in {"await_inventory", "done"}
        /\ pc = "done" => outcome.kind = "raise"
        /\ Len(pages) = Min(InvalidPages)
        /\ Len(ListingRequests) = Min(InvalidPages)

\* the second page of a walk had a valid record followed by an invalid one:
\* the walk ended with the validation failure, the products accumulated so
\* far were not returned
C13_Witness ==
    /\ op = "get_detailed_products" /\ pc = "done"
    /\ Len(pages) = 2
    /\ pages[1].records # <<>> /\ ~HasInvalid(pages[1].records)
    /\ Len(pages[2].records) = 2
    /\ pages[2].records[1].valid /\ ~pages[2].records[2].valid
    /\ pages[2].link # None
    /\ outcome = ValidationError
    /\ Len(all_products) = Len(pages[1].records) + 1

IsInventory(r) == r.kind = "inventory"

InventoryRequests == SelectSeq(requests, IsInventory)

\* the inventory-item identifiers of the variants of a page, in page order
RECURSIVE ItemsOf(_)
ItemsOf(records) ==
    IF records = <<>> THEN <<>>
    ELSE [j \in DOMAIN Head(records).variants |-> Head(records).variants[j].inventory_item_id]
         \o ItemsOf(Tail(records))

\* the pages received so far that came with status 200
PagesOk == {k \in DOMAIN pages : pages[k].status = 200}

\* C14: at most one upstream request is unanswered at any time; the requests
\* of detailed-products alternate listing, inventory-levels, listing, ...; the
\* k-th inventory-levels request follows the k-th page and asks for all the
\* inventory items of that page at once, so a walk that returns has made as
\* many inventory-levels requests as it received pages; products/{id} and
\* product-by-url make one inventory-levels request, for all the variants of
\* the product, once the product has been fetched, and none otherwise
C14_OneInventoryRequestPerPage ==
    /\ Len(requests) - Len(statuses) =
          (IF pc \in {"await_listing", "await_inventory", "await_product"} THEN 1 ELSE 0)
    /\ op = "get_detailed_products" =>
          /\ \A k \in DOMAIN requests :
                requests[k].kind = (IF k % 2 = 1 THEN "listing" ELSE "inventory")
          /\ Len(InventoryRequests) = Cardinality(PagesOk)
          /\ \A k \in DOMAIN InventoryRequests :
                /\ k \in PagesOk
                /\ InventoryRequests[k].ids = ItemsOf(pages[k].records)
          /\ Returned => Len(InventoryRequests) = Len(pages)
    /\ op \in {"get_product_details", "get_product_by_url"} =>
          /\ Len(InventoryRequests) = (IF statuses # <<>> /\ statuses[1] = 200 THEN 1 ELSE 0)
          /\ InventoryRequests # <<>> =>
                /\ Len(requests) = 2 /\ requests[2] = InventoryRequests[1]
                /\ InventoryRequests[1].ids = ItemsOf(product_data)
          /\ Returned => Len(InventoryRequests) = 1

\* a walk over two pages returned; its first page had three variants in two
\* products and was served by one inventory-levels request, its second page
\* had no product and was served by one as well
C14_Witness ==
    /\ op = "get_detailed_products" /\ Returned
    /\ Len(pages) = 2 /\ Len(pages[1].records) = 2 /\ pages[2].records = <<>>
    /\ Len(InventoryRequests) = 2
    /\ Len(InventoryRequests[1].ids) = 3 /\ InventoryRequests[2].ids = <<>>
    /\ Len(requests) = 4

-----------------------------------------------------------------------------
(* The variant query parameter *)

HasProductsSegment(u) == \E i \in 1..Len(u) : LitAt(u, i, LitProducts)

\* the positions of u where variant= is followed by a digit
VariantParams(u) ==
    {i \in 1..Len(u) :
        /\ LitAt(u, i, LitVariant)
        /\ i + Len(LitVariant) <= Len(u)
        /\ u[i + Len(LitVariant)] \in Digits}

\* the decimal number s denotes, read from the left
RECURSIVE Decimal(_, _)
Decimal(s, acc) ==
    IF s = <<>> THEN acc ELSE Decimal(Tail(s), 10 * acc + DigitValue(Head(s)))

\* the digits that follow the first variant= of u that has digits
VariantDigits(u) ==
    LET from == Min(VariantParams(u)) + Len(LitVariant)
        to == Max({k \in from..Len(u) : \A j \in from..k : u[j] \in Digits})
    IN  SubSeq(u, from, to)

\* C15: a URL without a /products/ segment that carries variant=<digits>
\* resolves to the integer those digits denote (the first such parameter if
\* there are several), and no handle is looked up
C15_VariantParameter ==
    Resolved /\ ~HasProductsSegment(url) /\ VariantParams(url) # {} =>
        /\ product_id = IntId(Decimal(VariantDigits(url), 0))
        /\ HandleLookups = <<>>

\* /product/?variant=77 was resolved to 77
C15_Witness ==
    /\ op = "extract_product_id_from_url" /\ pc = "done"
    /\ url = <<"/">> \o LitProduct \o <<"?">> \o LitVariant \o <<"7", "7">>
    /\ ~HasProductsSegment(url) /\ VariantParams(url) # {}
    /\ product_id = IntId(77)

-----------------------------------------------------------------------------
(* Termination of the pagination walk *)

\* every response so far was successful and every record valid
WalkOk == (\A i \in DOMAIN statuses : statuses[i] = 200) /\ InvalidPages = {}

\* the walk has followed MaxPages - 1 next-links and requested one more page:
\* the cursor chain is longer than the model follows it
Truncated ==
    op = "get_detailed_products" /\ pc = "await_listing" /\ Len(pages) = MaxPages

\* the walk has ended although the last page it received had a next-link and
\* nothing had failed
StoppedEarly ==
    /\ op = "get_detailed_products" /\ pc = "done" /\ pages # <<>>
    /\ WalkOk /\ pages[Len(pages)].link # None

\* the last page has been merged and had a next-link, and nothing has failed
LinkToFollow ==
    /\ op = "get_detailed_products" /\ pages # <<>> /\ pc # "await_inventory"
    /\ WalkOk /\ pages[Len(pages)].link # None

\* C16: the walk ends only by an error or on a page without next-link; after
\* a page with a next-link it is requesting that link again, whether or not
\* it was requested before; every walk eventually ends unless the cursor
\* chain goes on beyond the pages the model follows, and a walk with
\* credentials eventually returns unless a response fails, a record is
\* invalid, or the chain goes on beyond the pages the model follows
C16_WalkTerminatesOnLastPage ==
    /\ [](~StoppedEarly)
    /\ [](LinkToFollow =>
             /\ pc = "await_listing"
             /\ requests[Len(requests)] = ListingRequest(pages[Len(pages)].link[1]))
    /\ <>(pc = "done" \/ Truncated)
    /\ <>(~Configured(config) \/ Returned \/ ~WalkOk \/ Truncated)

\* a walk followed a next-link and returned after the second page, which had
\* none
C16_Witness ==
    /\ op = "get_detailed_products" /\ Returned /\ WalkOk
    /\ Len(pages) = 2
    /\ pages[1].link # None /\ pages[2].link = None
    /\ Len(ListingRequests) = 2

-----------------------------------------------------------------------------
(* The plain listing *)

\* C18: products issues one request, to the base listing, and no other; it
\* ends on the response to it, and what it returns are the records of that
\* page, whether or not the page has a next-link
C18_OneListingRequest ==
    op = "get_products" =>
        /\ \A k \in DOMAIN requests : k = 1 /\ requests[k] = ListingRequest(BaseListing)
        /\ Configured(config) /\ pc # "start" => Len(requests) = 1
        /\ pages # <<>> => pc = "done" /\ Len(pages) = 1
        /\ Returned =>
              /\ Len(outcome.body) = Len(pages[1].records)
              /\ \A i \in DOMAIN outcome.body :
                    /\ outcome.body[i].id = pages[1].records[i].id
                    /\ Len(outcome.body[i].variants) = Len(pages[1].records[i].variants)
                    /\ \A j \in DOMAIN outcome.body[i].variants :
                          outcome.body[i].variants[j].id = pages[1].records[i].variants[j].id

\* products returned the two records of a first page that had a next-link
C18_Witness ==
    /\ op = "get_products" /\ Returned
    /\ Len(requests) = 1
    /\ pages[1].link # None
    /\ Len(pages[1].records) = 2 /\ Len(outcome.body) = 2

-----------------------------------------------------------------------------
(* Concurrent invocations *)

\* C17: whatever the interleaving with another invocation, an invocation
\* issues the requests and gets the result that its own responses determine:
\* the walk follows the links of its own pages and returns their records, a
\* variant absent from the invocation's own inventory-levels response is
\* reported with quantity 0, each inventory-levels request asks for the items
\* of the invocation's own page or product, products/{id} and product-by-url
\* end as their own two responses say, and products returns its own page
C17_NoInterference ==
    /\ C2_WalkInPageOrder
    /\ C7_AbsentIsZero
    /\ C14_OneInventoryRequestPerPage
    /\ C10_ByUrlAsDetails
    /\ C18_OneListingRequest

\* two walks were interleaved: the one that runs returned the product of
\* its own single page, while the other, which waits for the inventory
\* levels of its second page, has accumulated another product
C17_Witness ==
    /\ op = "get_detailed_products" /\ Returned
    /\ Len(pages) = 1 /\ Len(outcome.body) = 1
    /\ suspended # <<>>
    /\ suspended[1].op = "get_detailed_products"
    /\ suspended[1].pc = "await_inventory"
    /\ Len(suspended[1].pages) = 2
    /\ Len(suspended[1].all_products) = 1
    /\ suspended[1].all_products[1].id # outcome.body[1].id

-----------------------------------------------------------------------------
(* Several inventory levels of one item *)

\* the positions of the entries of json for an inventory item
EntriesOf(item, json) == {i \in DOMAIN json : json[i].inventory_item_id = item}

\* the 'available' of the last entry of json for the item, null read as 0
LastAvailable(item, json) == OrZero(json[Max(EntriesOf(item, json))].available)

\* the variants of product have the quantity of the last entry of their item
LastEntryWins(product, json) ==
    \A j \in DOMAIN product.variants :
        EntriesOf(product.variants[j].inventory_item_id, json) # {} =>
            /\ product.variants[j].inventory_quantity
                  = LastAvailable(product.variants[j].inventory_item_id, json)
            /\ product.variants[j].available
                  = (LastAvailable(product.variants[j].inventory_item_id, json) > 0)

\* C19: when the inventory-levels response has entries for the item of a
\* variant, the variant's quantity is the 'available' of the last of them
\* (null read as 0), in the merge of detailed-products and in the merge of
\* products/{id}, which give the same quantities for the same response
C19_LastEntryWins ==
    /\ op = "inventory_merge" /\ pc = "done" =>
          /\ LastEntryWins(products_data[1], inventory_json)
          /\ LastEntryWins(product_data[1], inventory_json)
          /\ products_data[1].variants = product_data[1].variants
    /\ op \in {"get_product_details", "get_product_by_url"} /\ ProductMerged =>
          LastEntryWins(product_data[1], inventory_json)

\* the response had two entries for the item of the variant, -1 and then 2:
\* both merges report 2, which is neither the first entry nor the sum
C19_Witness ==
    /\ op = "inventory_merge" /\ pc = "done"
    /\ Len(inventory_json) = 2
    /\ inventory_json[1] = [inventory_item_id |-> 101, available |-> Some(-1)]
    /\ inventory_json[2] = [inventory_item_id |-> 101, available |-> Some(2)]
    /\ products_data[1].variants[1].inventory_item_id = 101
    /\ products_data[1].variants[1].inventory_quantity = 2
    /\ product_data[1].variants[1].inventory_quantity = 2

====
